---- MODULE Spec2Model ----
(***************************************************************************)
(* Model of get_jupyterbook_latex_macros.py: the scan of the book folders, *)
(* the recursive macro collection over pylatexenc node lists, the          *)
(* aggregation over files, the final cleaning and the output file.         *)
(*                                                                         *)
(* A Python str is modelled as a sequence of one-character strings, so     *)
(* that strip, join, Path.suffix and line splitting are computed.          *)
(***************************************************************************)
EXTENDS Integers, Sequences, FiniteSets, TLC

VARIABLES
    \* ---- main() ----
    pc,               \* position in main
    book_exists,      \* book_dir.exists()
    unit_exists,      \* unit -> (book_dir / unit).exists()
    files,            \* unit -> names of the immediate children of the folder
    old_outfile,      \* content of macros_used.txt before the run
    outfile,          \* content of macros_used.txt
    writes,           \* number of times macros_used.txt was opened for writing
    u,                \* index in unit_list of the folder being scanned
    md_files,         \* all_md_filepaths / md_files
    ipynb_files,      \* all_ipynb_filepaths / ipynb_files
    warned,           \* paths passed to warnings.warn
    ignored,          \* paths printed as "Ignoring hidden file"
    scanned,          \* units whose iterdir() was run
    i,                \* index of the next file in the list being processed
    reads,            \* paths opened for reading
    parsed,           \* node lists returned by get_nodelist, in processing order
    failed,           \* some read or parse raised
    all_md_macros,    \* accumulator of process_md_files
    all_nb_macros,    \* accumulator of process_ipynb_files
    all_macros_used,  \* accumulator of main
    clean_macros,     \* result of final_clean in main
    \* ---- one execution of get_macros, call by call ----
    walk_input,       \* the node list of the outermost call
    stack,            \* call stack: frames [node_list, path, idx, macros]
    walk_pc,          \* "running" or "returned"
    walk_result,      \* value returned by the outermost call
    visited,          \* paths of the nodes the for loops have visited, in order
    called            \* paths of the nodes whose nodelist a recursive call was made on

main_vars == <<pc, book_exists, unit_exists, files, old_outfile, outfile, writes, u,
               md_files, ipynb_files, warned, ignored, scanned, i, reads, parsed,
               failed, all_md_macros, all_nb_macros, all_macros_used, clean_macros>>
walk_vars == <<walk_input, stack, walk_pc, walk_result, visited, called>>
vars == <<main_vars, walk_vars>>

----------------------------------------------------------------------------
(* Bounds *)

\* largest number of nodes in a node tree explored by the walk
MaxNodes == 3
\* number of content folders of unit_list that are modelled
MaxUnits == 2
\* largest number of files in the book
MaxFiles == 3

----------------------------------------------------------------------------
(* Sequences and strings *)

Range(seq) == { seq[k] : k \in 1..Len(seq) }
NoDuplicates(seq) == \A a, b \in 1..Len(seq) : seq[a] = seq[b] => a = b

NL == "\n"
Whitespace == {" ", "\t", NL, "\r"}

RECURSIVE lstrip(_)
lstrip(s) == IF s # <<>> /\ Head(s) \in Whitespace THEN lstrip(Tail(s)) ELSE s

RECURSIVE rstrip(_)
rstrip(s) ==
    IF s # <<>> /\ s[Len(s)] \in Whitespace THEN rstrip(SubSeq(s, 1, Len(s) - 1)) ELSE s

strip(s) == rstrip(lstrip(s))

\* sep.join(items), items a sequence of strings
RECURSIVE join(_, _)
join(sep, items) ==
    IF items = <<>> THEN <<>>
    ELSE IF Len(items) = 1 THEN items[1]
    ELSE items[1] \o sep \o join(sep, Tail(items))

\* s.rfind(c): 1-based position of the last c in s, 0 when there is none
RECURSIVE rfind(_, _)
rfind(s, c) ==
    IF s = <<>> THEN 0
    ELSE IF s[Len(s)] = c THEN Len(s)
    ELSE rfind(SubSeq(s, 1, Len(s) - 1), c)

\* PurePath.suffix of a file name
suffix(name) ==
    LET d == rfind(name, ".")
    IN  IF 1 < d /\ d < Len(name) THEN SubSeq(name, d, Len(name)) ELSE <<>>

----------------------------------------------------------------------------
(* pylatexenc nodes *)

LatexMacroNode(name, args) ==
    [kind |-> "macro", macroname |-> name, environmentname |-> <<>>,
     nodelist |-> <<>>, nodeargd |-> args]
LatexMathNode(nl) ==
    [kind |-> "math", macroname |-> <<>>, environmentname |-> <<>>,
     nodelist |-> nl, nodeargd |-> <<>>]
LatexEnvironmentNode(name, nl) ==
    [kind |-> "environment", macroname |-> <<>>, environmentname |-> name,
     nodelist |-> nl, nodeargd |-> <<>>]
LatexGroupNode(nl) ==
    [kind |-> "group", macroname |-> <<>>, environmentname |-> <<>>,
     nodelist |-> nl, nodeargd |-> <<>>]
LatexCharsNode ==
    [kind |-> "chars", macroname |-> <<>>, environmentname |-> <<>>,
     nodelist |-> <<>>, nodeargd |-> <<>>]
LatexSpecialsNode ==
    [kind |-> "specials", macroname |-> <<>>, environmentname |-> <<>>,
     nodelist |-> <<>>, nodeargd |-> <<>>]

is_macro(node) == node.kind = "macro"

\* variants of has_nodelist: one that also counts LatexGroupNode, which carries a
\* nodelist too, and two that test a single node type
has_nodelist_group(node) == node.kind \in {"math", "environment", "group"}
has_nodelist_math_only(node) == node.kind = "math"
has_nodelist_env_only(node) == node.kind = "environment"

has_nodelist(node) == node.kind = "math" \/ node.kind = "environment"

\* get_macros: the for loop from position k on, macros the set built so far
RECURSIVE get_macros(_), get_macros_loop(_, _, _)
get_macros_loop(node_list, k, macros) ==
    IF k > Len(node_list) THEN macros
    ELSE LET node == node_list[k]
         IN  get_macros_loop(node_list, k + 1,
                 IF is_macro(node) THEN macros \cup {node.macroname}
                 ELSE IF has_nodelist(node) THEN macros \cup get_macros(node.nodelist)
                 ELSE macros)

get_macros(node_list) ==
    IF node_list = <<>> THEN {} ELSE get_macros_loop(node_list, 1, {})

----------------------------------------------------------------------------
(* Node trees given to the walk *)

alpha == <<"a", "l", "p", "h", "a">>
nu == <<"n", "u">>
align == <<"a", "l", "i", "g", "n">>

WalkMacroNames == {alpha, nu}
WalkEnvNames == {align}

\* nodes with exactly s nodes in their tree, node lists with exactly s nodes
RECURSIVE NodesOfSize(_), NodeListsOfSize(_)
NodesOfSize(s) ==
    IF s = 0 THEN {}
    ELSE (IF s = 1 THEN {LatexCharsNode, LatexSpecialsNode} ELSE {})
         \cup { LatexMacroNode(n, a) : n \in WalkMacroNames, a \in NodeListsOfSize(s - 1) }
         \cup { LatexEnvironmentNode(e, c) : e \in WalkEnvNames, c \in NodeListsOfSize(s - 1) }
         \cup { LatexMathNode(c) : c \in NodeListsOfSize(s - 1) }
         \cup { LatexGroupNode(c) : c \in NodeListsOfSize(s - 1) }

NodeListsOfSize(s) ==
    IF s = 0 THEN {<<>>}
    ELSE UNION { { <<n>> \o rest : n \in NodesOfSize(k), rest \in NodeListsOfSize(s - k) }
                 : k \in 1..s }

WalkInputs == UNION { NodeListsOfSize(s) : s \in 0..MaxNodes }

\* children of a node in the tree: its nodelist, or the arguments of a macro
Children(node) == IF node.kind = "macro" THEN node.nodeargd ELSE node.nodelist

\* the node at path p (a nonempty sequence of positions) below node list nl
RECURSIVE NodeAt(_, _)
NodeAt(nl, p) ==
    IF Len(p) = 1 THEN nl[p[1]] ELSE NodeAt(Children(nl[p[1]]), Tail(p))

RECURSIVE TreeSize(_)
TreeSize(nl) ==
    IF nl = <<>> THEN 0
    ELSE 1 + TreeSize(Children(Head(nl))) + TreeSize(Tail(nl))

----------------------------------------------------------------------------
(* One execution of get_macros, one step per loop iteration or return *)

Frame(nl, p) == [node_list |-> nl, path |-> p, idx |-> 1, macros |-> {}]

Top == stack[Len(stack)]

WalkIdleMain ==
    /\ pc = "idle"
    /\ book_exists = FALSE
    /\ unit_exists = <<>>
    /\ files = <<>>
    /\ old_outfile = <<>>
    /\ outfile = <<>>
    /\ writes = 0
    /\ u = 0
    /\ md_files = <<>>
    /\ ipynb_files = <<>>
    /\ warned = {}
    /\ ignored = {}
    /\ scanned = {}
    /\ i = 0
    /\ reads = {}
    /\ parsed = <<>>
    /\ failed = FALSE
    /\ all_md_macros = {}
    /\ all_nb_macros = {}
    /\ all_macros_used = {}
    /\ clean_macros = {}

WalkInit ==
    /\ walk_input \in WalkInputs
    /\ stack = <<Frame(walk_input, <<>>)>>
    /\ walk_pc = "running"
    /\ walk_result = {}
    /\ visited = <<>>
    /\ called = <<>>
    /\ WalkIdleMain

\* the frame returns value r: to its caller's macros.update, or to the outside
ReturnValue(r) ==
    IF Len(stack) = 1
    THEN /\ stack' = <<>>
         /\ walk_result' = r
         /\ walk_pc' = "returned"
    ELSE /\ LET caller == stack[Len(stack) - 1]
            IN  stack' = SubSeq(stack, 1, Len(stack) - 2)
                         \o <<[caller EXCEPT !.macros = @ \cup r, !.idx = @ + 1]>>
         /\ UNCHANGED <<walk_result, walk_pc>>

\* if not node_list: return macros
ReturnEmpty ==
    /\ walk_pc = "running"
    /\ Top.node_list = <<>>
    /\ ReturnValue(Top.macros)
    /\ UNCHANGED <<walk_input, visited, called, main_vars>>

\* macros.add(node.macroname)
VisitMacro ==
    /\ walk_pc = "running"
    /\ Top.idx <= Len(Top.node_list)
    /\ LET node == Top.node_list[Top.idx]
       IN  /\ is_macro(node)
           /\ stack' = [stack EXCEPT ![Len(stack)] =
                            [@ EXCEPT !.macros = @ \cup {node.macroname}, !.idx = @ + 1]]
    /\ visited' = Append(visited, Append(Top.path, Top.idx))
    /\ UNCHANGED <<walk_input, walk_pc, walk_result, called, main_vars>>

\* macros.update(get_macros(node.nodelist)): the call; the update is made on return
VisitDescend ==
    /\ walk_pc = "running"
    /\ Top.idx <= Len(Top.node_list)
    /\ LET node == Top.node_list[Top.idx]
           p == Append(Top.path, Top.idx)
       IN  /\ ~is_macro(node)
           /\ has_nodelist(node)
           /\ stack' = Append(stack, Frame(node.nodelist, p))
           /\ visited' = Append(visited, p)
           /\ called' = Append(called, p)
    /\ UNCHANGED <<walk_input, walk_pc, walk_result, main_vars>>

\* else: continue
VisitOther ==
    /\ walk_pc = "running"
    /\ Top.idx <= Len(Top.node_list)
    /\ LET node == Top.node_list[Top.idx]
       IN  /\ ~is_macro(node)
           /\ ~has_nodelist(node)
           /\ stack' = [stack EXCEPT ![Len(stack)] = [@ EXCEPT !.idx = @ + 1]]
    /\ visited' = Append(visited, Append(Top.path, Top.idx))
    /\ UNCHANGED <<walk_input, walk_pc, walk_result, called, main_vars>>

\* return macros, after the loop
ReturnMacros ==
    /\ walk_pc = "running"
    /\ Top.node_list # <<>>
    /\ Top.idx > Len(Top.node_list)
    /\ ReturnValue(Top.macros)
    /\ UNCHANGED <<walk_input, visited, called, main_vars>>

WalkNext == ReturnEmpty \/ VisitMacro \/ VisitDescend \/ VisitOther \/ ReturnMacros

SpecWalk == WalkInit /\ [][WalkNext]_vars /\ WF_vars(WalkNext)

----------------------------------------------------------------------------
(* The book on disk *)

dot_md == <<".", "m", "d">>
dot_ipynb == <<".", "i", "p", "y", "n", "b">>

a_md == <<"a", ".", "m", "d">>
c_ipynb == <<"c", ".", "i", "p", "y", "n", "b">>
d_txt == <<"d", ".", "t", "x", "t">>
README == <<"R", "E", "A", "D", "M", "E">>

\* names a folder may hold; dot_md is also the name of a hidden file, ".md"
FileNames == {a_md, c_ipynb, d_txt, README, dot_md}

\* unit_list, cut to its first MaxUnits folders
unit_list == [k \in 1..MaxUnits |-> k]

\* the subsets of S with at most k elements
RECURSIVE SubsetsUpTo(_, _)
SubsetsUpTo(S, k) ==
    IF k = 0 THEN {{}}
    ELSE LET smaller == SubsetsUpTo(S, k - 1)
         IN  smaller \cup { T \cup {x} : T \in smaller, x \in S }

\* the orders in which iteration may yield the elements of set S
RECURSIVE Orders(_)
Orders(S) ==
    IF S = {} THEN {<<>>}
    ELSE UNION { { <<x>> \o rest : rest \in Orders(S \ {x}) } : x \in S }

\* contents of macros_used.txt left by an earlier run
OldOutfiles == { <<>>, <<"n", NL, NL, "x", NL>> }

----------------------------------------------------------------------------
(* What the parser returns for the files of the book *)

theta == <<"t", "h", "e", "t", "a">>

\* an empty file
DocEmpty == <<>>
\* $\alpha + \nu$
DocMath == <<LatexMathNode(<<LatexMacroNode(alpha, <<>>), LatexCharsNode,
                             LatexMacroNode(nu, <<>>)>>)>>
\* \theta{\nu} \begin{align} \\ \n & \end{align} \<newline> \{ \<space>
DocMixed ==
    <<LatexMacroNode(theta, <<LatexGroupNode(<<LatexMacroNode(nu, <<>>)>>)>>),
      LatexEnvironmentNode(align, <<LatexMacroNode(<<"\\">>, <<>>),
                                    LatexMacroNode(<<"n">>, <<>>),
                                    LatexSpecialsNode>>),
      LatexMacroNode(<<NL>>, <<>>),
      LatexMacroNode(<<"{">>, <<>>),
      LatexMacroNode(<<" ">>, <<>>)>>

Docs == {DocEmpty, DocMath, DocMixed}

----------------------------------------------------------------------------
(* Helpers of main *)

\* variant of exists: the assertion is not evaluated
exists_unchecked(e) == TRUE

\* current_path.exists() / book_dir.exists() under assert
exists(e) == e

\* variant of classify: the final else appends to the markdown list
classify_else_md(name) ==
    IF suffix(name) = dot_md THEN "md"
    ELSE IF suffix(name) = dot_ipynb THEN "ipynb"
    ELSE IF suffix(name) = <<>> THEN "ignored"
    ELSE "md"

\* the if / elif chain of get_content_filepaths on one file name
classify(name) ==
    IF suffix(name) = dot_md THEN "md"
    ELSE IF suffix(name) = dot_ipynb THEN "ipynb"
    ELSE IF suffix(name) = <<>> THEN "ignored"
    ELSE "warned"

\* the inner for loop of get_content_filepaths over the files of one folder
RECURSIVE ScanFiles(_, _, _)
ScanFiles(unit, order, acc) ==
    IF order = <<>> THEN acc
    ELSE LET file == <<unit, Head(order)>>
             c == classify(Head(order))
         IN  ScanFiles(unit, Tail(order),
                 IF c = "md" THEN [acc EXCEPT !.md = Append(@, file)]
                 ELSE IF c = "ipynb" THEN [acc EXCEPT !.ipynb = Append(@, file)]
                 ELSE IF c = "ignored" THEN [acc EXCEPT !.ignored = @ \cup {file}]
                 ELSE [acc EXCEPT !.warned = @ \cup {file}])

\* variant of update: assignment in place of set.update
update_overwrite(acc, new) == new

\* set.update
update(acc, new) == acc \cup new

\* variant of on_error: the exception is swallowed and the loop goes on
on_error_skip(stage) == stage

\* an exception in a loop of process_md_files / process_ipynb_files is not caught
on_error(stage) == "aborted"

problem_list == << <<"{">>, <<"}">>, <<"t">>, <<"n">>, <<"&">>, <<"\\">> >>

\* variants of final_clean: one without strip, one matching the denylist by prefix
final_clean_nostrip(macros) ==
    { item \in macros : item # <<>> /\ item \notin Range(problem_list) }
final_clean_startswith(macros) ==
    { item \in macros : strip(item) # <<>>
                        /\ \A k \in 1..Len(problem_list) :
                               SubSeq(item, 1, 1) # problem_list[k] }

\* the set comprehension of final_clean
final_clean(macros) ==
    { item \in macros : strip(item) # <<>> /\ item \notin Range(problem_list) }

\* variant of open_w: mode "a"
open_a(content) == content

\* open("macros_used.txt", "w") on a file holding content
open_w(content) == <<>>

----------------------------------------------------------------------------
(* main *)

WalkIdle ==
    /\ walk_input = <<>>
    /\ stack = <<>>
    /\ walk_pc = "idle"
    /\ walk_result = {}
    /\ visited = <<>>
    /\ called = <<>>

Init ==
    /\ pc = "start"
    /\ book_exists \in BOOLEAN
    /\ unit_exists \in [1..MaxUnits -> BOOLEAN]
    /\ ~book_exists => \A k \in 1..MaxUnits : ~unit_exists[k]
    /\ \E F \in SubsetsUpTo({ k \in 1..MaxUnits : unit_exists[k] } \X FileNames, MaxFiles) :
           files = [k \in 1..MaxUnits |-> { n \in FileNames : <<k, n>> \in F }]
    /\ old_outfile \in OldOutfiles
    /\ outfile = old_outfile
    /\ writes = 0
    /\ u = 1
    /\ md_files = <<>>
    /\ ipynb_files = <<>>
    /\ warned = {}
    /\ ignored = {}
    /\ scanned = {}
    /\ i = 1
    /\ reads = {}
    /\ parsed = <<>>
    /\ failed = FALSE
    /\ all_md_macros = {}
    /\ all_nb_macros = {}
    /\ all_macros_used = {}
    /\ clean_macros = {}
    /\ WalkIdle

\* assert book_dir.exists()
CheckBookDir ==
    /\ pc = "start"
    /\ pc' = IF exists(book_exists) THEN "scan" ELSE "aborted"
    /\ UNCHANGED <<book_exists, unit_exists, files, old_outfile, outfile, writes, u,
                   md_files, ipynb_files, warned, ignored, scanned, i, reads, parsed,
                   failed, all_md_macros, all_nb_macros, all_macros_used, clean_macros,
                   walk_vars>>

\* one iteration of the for loop over unit_list in get_content_filepaths
ScanUnit ==
    /\ pc = "scan"
    /\ u <= Len(unit_list)
    /\ IF ~exists(unit_exists[unit_list[u]])
       THEN /\ pc' = "aborted"
            /\ UNCHANGED <<u, md_files, ipynb_files, warned, ignored, scanned>>
       ELSE \E order \in Orders(files[unit_list[u]]) :
                LET acc == ScanFiles(unit_list[u], order,
                               [md |-> md_files, ipynb |-> ipynb_files,
                                ignored |-> ignored, warned |-> warned])
                IN  /\ md_files' = acc.md
                    /\ ipynb_files' = acc.ipynb
                    /\ ignored' = acc.ignored
                    /\ warned' = acc.warned
                    /\ scanned' = scanned \cup {unit_list[u]}
                    /\ u' = u + 1
                    /\ pc' = pc
    /\ UNCHANGED <<book_exists, unit_exists, files, old_outfile, outfile, writes, i,
                   reads, parsed, failed, all_md_macros, all_nb_macros,
                   all_macros_used, clean_macros, walk_vars>>

\* return all_md_filepaths, all_ipynb_filepaths; main calls process_md_files
ScanReturn ==
    /\ pc = "scan"
    /\ u > Len(unit_list)
    /\ pc' = "md"
    /\ i' = 1
    /\ UNCHANGED <<book_exists, unit_exists, files, old_outfile, outfile, writes, u,
                   md_files, ipynb_files, warned, ignored, scanned, reads, parsed,
                   failed, all_md_macros, all_nb_macros, all_macros_used, clean_macros,
                   walk_vars>>

\* one iteration of the loop of process_md_files: the file is read and parsed
ProcessMdFile ==
    /\ pc = "md"
    /\ i <= Len(md_files)
    /\ IF suffix(md_files[i][2]) # dot_md
       THEN /\ pc' = "aborted"
            /\ UNCHANGED <<i, reads, parsed, all_md_macros>>
       ELSE \E nodelist \in Docs :
                /\ reads' = reads \cup {md_files[i]}
                /\ parsed' = Append(parsed, nodelist)
                /\ all_md_macros' = update(all_md_macros, get_macros(nodelist))
                /\ i' = i + 1
                /\ pc' = pc
    /\ UNCHANGED <<book_exists, unit_exists, files, old_outfile, outfile, writes, u,
                   md_files, ipynb_files, warned, ignored, scanned, failed,
                   all_nb_macros, all_macros_used, clean_macros, walk_vars>>

\* one iteration of the loop of process_md_files: open, read or the parser raises
ProcessMdFileRaises ==
    /\ pc = "md"
    /\ i <= Len(md_files)
    /\ suffix(md_files[i][2]) = dot_md
    /\ reads' = reads \cup {md_files[i]}
    /\ failed' = TRUE
    /\ pc' = on_error(pc)
    /\ UNCHANGED <<book_exists, unit_exists, files, old_outfile, outfile, writes, u,
                   md_files, ipynb_files, warned, ignored, scanned, i, parsed,
                   all_md_macros, all_nb_macros, all_macros_used, clean_macros,
                   walk_vars>>

\* all_macros_used.update(process_md_files(md_files)); main calls process_ipynb_files
ProcessMdReturn ==
    /\ pc = "md"
    /\ i > Len(md_files)
    /\ all_macros_used' = update(all_macros_used, all_md_macros)
    /\ pc' = "ipynb"
    /\ i' = 1
    /\ UNCHANGED <<book_exists, unit_exists, files, old_outfile, outfile, writes, u,
                   md_files, ipynb_files, warned, ignored, scanned, reads, parsed,
                   failed, all_md_macros, all_nb_macros, clean_macros, walk_vars>>

\* one iteration of the loop of process_ipynb_files: the notebook is read and parsed
ProcessIpynbFile ==
    /\ pc = "ipynb"
    /\ i <= Len(ipynb_files)
    /\ \E base_nodelist \in Docs :
           /\ reads' = reads \cup {ipynb_files[i]}
           /\ parsed' = Append(parsed, base_nodelist)
           /\ all_nb_macros' = update(all_nb_macros, get_macros(base_nodelist))
           /\ i' = i + 1
    /\ UNCHANGED <<pc, book_exists, unit_exists, files, old_outfile, outfile, writes, u,
                   md_files, ipynb_files, warned, ignored, scanned, failed,
                   all_md_macros, all_macros_used, clean_macros, walk_vars>>

\* one iteration of the loop of process_ipynb_files: jupytext or the parser raises
ProcessIpynbFileRaises ==
    /\ pc = "ipynb"
    /\ i <= Len(ipynb_files)
    /\ reads' = reads \cup {ipynb_files[i]}
    /\ failed' = TRUE
    /\ pc' = on_error(pc)
    /\ UNCHANGED <<book_exists, unit_exists, files, old_outfile, outfile, writes, u,
                   md_files, ipynb_files, warned, ignored, scanned, i, parsed,
                   all_md_macros, all_nb_macros, all_macros_used, clean_macros,
                   walk_vars>>

\* all_macros_used.update(process_ipynb_files(ipynb_files))
ProcessIpynbReturn ==
    /\ pc = "ipynb"
    /\ i > Len(ipynb_files)
    /\ all_macros_used' = update(all_macros_used, all_nb_macros)
    /\ pc' = "clean"
    /\ UNCHANGED <<book_exists, unit_exists, files, old_outfile, outfile, writes, u,
                   md_files, ipynb_files, warned, ignored, scanned, i, reads, parsed,
                   failed, all_md_macros, all_nb_macros, clean_macros, walk_vars>>

\* clean_macros = final_clean(all_macros_used)
FinalClean ==
    /\ pc = "clean"
    /\ clean_macros' = final_clean(all_macros_used)
    /\ pc' = "write"
    /\ UNCHANGED <<book_exists, unit_exists, files, old_outfile, outfile, writes, u,
                   md_files, ipynb_files, warned, ignored, scanned, i, reads, parsed,
                   failed, all_md_macros, all_nb_macros, all_macros_used, walk_vars>>

\* write_file(clean_macros): the set is joined in the order its iteration yields
WriteFile ==
    /\ pc = "write"
    /\ \E order \in Orders(clean_macros) :
           outfile' = open_w(outfile) \o join(<<NL>>, order)
    /\ writes' = writes + 1
    /\ pc' = "done"
    /\ UNCHANGED <<book_exists, unit_exists, files, old_outfile, u, md_files,
                   ipynb_files, warned, ignored, scanned, i, reads, parsed, failed,
                   all_md_macros, all_nb_macros, all_macros_used, clean_macros,
                   walk_vars>>

Next ==
    \/ CheckBookDir
    \/ ScanUnit
    \/ ScanReturn
    \/ ProcessMdFile
    \/ ProcessMdFileRaises
    \/ ProcessMdReturn
    \/ ProcessIpynbFile
    \/ ProcessIpynbFileRaises
    \/ ProcessIpynbReturn
    \/ FinalClean
    \/ WriteFile

Spec == Init /\ [][Next]_vars

----------------------------------------------------------------------------
(* final_clean on its own, over every set of names drawn from CleanNames *)

beta == <<"b", "e", "t", "a">>
text == <<"t", "e", "x", "t">>

CleanNames ==
    { <<>>, <<" ">>, <<NL>>, <<" ", NL>>, <<"t", " ">>,
      <<"{">>, <<"}">>, <<"t">>, <<"n">>, <<"&">>, <<"\\">>,
      alpha, beta, theta, nu, text }

CleanInit ==
    /\ pc = "clean"
    /\ all_macros_used \in SUBSET CleanNames
    /\ book_exists = TRUE
    /\ unit_exists = [k \in 1..MaxUnits |-> TRUE]
    /\ files = [k \in 1..MaxUnits |-> {}]
    /\ old_outfile = <<>>
    /\ outfile = <<>>
    /\ writes = 0
    /\ u = MaxUnits + 1
    /\ md_files = <<>>
    /\ ipynb_files = <<>>
    /\ warned = {}
    /\ ignored = {}
    /\ scanned = 1..MaxUnits
    /\ i = 1
    /\ reads = {}
    /\ parsed = <<>>
    /\ failed = FALSE
    /\ all_md_macros = {}
    /\ all_nb_macros = {}
    /\ clean_macros = {}
    /\ WalkIdle

SpecClean == CleanInit /\ [][FinalClean]_vars

----------------------------------------------------------------------------
(* Claims about final_clean *)

DenyTokens == { <<"{">>, <<"}">>, <<"t">>, <<"n">>, <<"&">>, <<"\\">> }

\* the string is empty once surrounding whitespace is trimmed
Blank(x) == \A k \in 1..Len(x) : x[k] \in Whitespace

\* C3: final_clean(S) is S minus the strings that are empty after trimming
\* whitespace and minus the strings equal to one of the six denylist tokens; the
\* match is exact, so theta, nu and text are kept.
C3_FinalCleanExact ==
    pc = "write" =>
        /\ clean_macros = { x \in all_macros_used : ~Blank(x) /\ x \notin DenyTokens }
        /\ \A x \in {theta, nu, text} : x \in all_macros_used => x \in clean_macros
        /\ all_macros_used = {alpha, <<"{">>, <<>>, <<"n">>, beta}
               => clean_macros = {alpha, beta}

C3_Witness ==
    /\ pc = "write"
    /\ all_macros_used = {alpha, <<"{">>, <<>>, <<"n">>, beta}
    /\ clean_macros = {alpha, beta}

\* C4 as claimed: no string of length at least 1 that is absent from the denylist
\* is removed, strings made only of whitespace included.
C4_NonemptyKept ==
    pc = "write" =>
        \A x \in all_macros_used :
            (Len(x) >= 1 /\ x \notin DenyTokens) => x \in clean_macros

\* C4 amended: no string that holds a non-whitespace character and is absent from
\* the denylist is removed.
C4_NonblankKept ==
    pc = "write" =>
        \A x \in all_macros_used :
            ((\E k \in 1..Len(x) : x[k] \notin Whitespace) /\ x \notin DenyTokens)
                => x \in clean_macros

C4_Witness ==
    /\ pc = "write"
    /\ {theta, <<"t", " ">>, <<" ">>, <<"t">>} \subseteq all_macros_used
    /\ theta \in clean_macros
    /\ <<"t", " ">> \in clean_macros
    /\ <<" ">> \notin clean_macros

----------------------------------------------------------------------------
(* Claims about main *)

RECURSIVE Concat(_)
Concat(seqs) == IF seqs = <<>> THEN <<>> ELSE Head(seqs) \o Concat(Tail(seqs))

\* the lines of a text file: the runs between newlines, a final newline ending
\* the last line
RECURSIVE Lines(_)
Lines(content) ==
    IF content = <<>> THEN <<>>
    ELSE IF \E k \in 1..Len(content) : content[k] = NL
    THEN LET k == CHOOSE j \in 1..Len(content) :
                      /\ content[j] = NL
                      /\ \A h \in 1..(j - 1) : content[h] # NL
         IN  <<SubSeq(content, 1, k - 1)>> \o Lines(SubSeq(content, k + 1, Len(content)))
    ELSE <<content>>

\* C5: the aggregate built file by file equals get_macros of the concatenation of
\* the per-file node lists, in the order processed and in every other order.
C5_AggregationOrderIndependent ==
    /\ pc = "md" => all_md_macros = get_macros(Concat(parsed))
    /\ pc \in {"write", "done"} => all_macros_used = get_macros(Concat(parsed))
    /\ pc = "clean" =>
           \A o \in Orders(1..Len(parsed)) :
               all_macros_used = get_macros(Concat([k \in 1..Len(parsed) |-> parsed[o[k]]]))

C5_Witness ==
    /\ pc = "clean"
    /\ md_files # <<>>
    /\ ipynb_files # <<>>
    /\ Len(parsed) >= 2
    /\ get_macros(parsed[1]) # get_macros(parsed[2])
    /\ get_macros(parsed[1]) # {}
    /\ get_macros(parsed[2]) # {}

\* C6: after a run that reached write_file the output file holds only what this
\* run wrote, whatever it held before, and no line of it is empty or a denylist
\* token.
C6_OutfileClean ==
    pc = "done" =>
        /\ outfile \in { join(<<NL>>, o) : o \in Orders(clean_macros) }
        /\ Range(Lines(outfile)) = clean_macros
        /\ \A k \in 1..Len(Lines(outfile)) :
               /\ Lines(outfile)[k] # <<>>
               /\ Lines(outfile)[k] \notin DenyTokens

C6_Witness ==
    /\ pc = "done"
    /\ old_outfile # <<>>
    /\ {<<"n">>, <<NL>>, <<"{">>, <<" ">>, <<"\\">>} \subseteq all_macros_used
    /\ Len(Lines(outfile)) >= 2

\* C7: a run in which a read or a parse fails aborts and leaves the output file
\* as it was; the file is written at most once, and only after every markdown
\* and notebook file was collected and the aggregate was cleaned.
C7_NoPartialResult ==
    /\ failed => (pc = "aborted" /\ writes = 0 /\ outfile = old_outfile)
    /\ writes <= 1
    /\ pc # "done" => (writes = 0 /\ outfile = old_outfile)
    /\ writes = 1 =>
           /\ pc = "done"
           /\ reads = Range(md_files) \cup Range(ipynb_files)
           /\ Len(parsed) = Len(md_files) + Len(ipynb_files)
           /\ all_macros_used = get_macros(Concat(parsed))
           /\ clean_macros = final_clean(all_macros_used)

\* a failure on a later file, after an earlier file was collected
C7_Witness ==
    /\ failed
    /\ pc = "aborted"
    /\ Len(parsed) >= 1
    /\ all_md_macros # {}
    /\ old_outfile # <<>>
    /\ outfile = old_outfile

Missing == ~book_exists \/ \E k \in 1..MaxUnits : ~unit_exists[k]

\* C8 as claimed: with the base directory or any subfolder missing, no subfolder
\* is scanned, no file is read or parsed, no warning is emitted and the output
\* file is not written.
C8_NothingBeforeAbort ==
    Missing =>
        /\ scanned = {}
        /\ warned = {}
        /\ reads = {}
        /\ parsed = <<>>
        /\ writes = 0
        /\ outfile = old_outfile

\* C8 amended: with the base directory missing nothing is scanned; with a
\* subfolder missing only the subfolders listed before the first missing one are
\* scanned, and warnings are emitted only for their files; in both cases no file
\* is read or parsed and the output file is not written.
C8_AbortBeforeProcessing ==
    Missing =>
        /\ pc \in {"start", "scan", "aborted"}
        /\ ~book_exists => (scanned = {} /\ warned = {})
        /\ \A k \in scanned : \A j \in 1..k : unit_exists[j]
        /\ \A f \in warned : f[1] \in scanned
        /\ reads = {}
        /\ parsed = <<>>
        /\ ~failed
        /\ writes = 0
        /\ outfile = old_outfile

\* the second folder is missing: the first was scanned and a warning emitted
C8_Witness ==
    /\ pc = "aborted"
    /\ book_exists
    /\ unit_exists[1]
    /\ ~unit_exists[2]
    /\ scanned = {1}
    /\ warned # {}
    /\ md_files # <<>>

HasExtension(name, ext) ==
    /\ Len(name) > Len(ext)
    /\ SubSeq(name, Len(name) - Len(ext) + 1, Len(name)) = ext

\* no dot after the first character (a leading dot marks a hidden file)
NoExtension(name) == \A k \in 2..Len(name) : name[k] # "."

\* C9: in every scanned folder each .md file is in the markdown list, each .ipynb
\* file in the notebook list, each file without extension in neither and not
\* warned about, and each file with another extension is warned about, in
\* neither list and never read; a warning does not stop the scan.
C9_ClassificationComplete ==
    /\ \A k \in scanned : \A n \in files[k] :
           LET f == <<k, n>>
           IN  IF HasExtension(n, dot_md)
               THEN f \in Range(md_files) /\ f \notin Range(ipynb_files) /\ f \notin warned
               ELSE IF HasExtension(n, dot_ipynb)
               THEN f \in Range(ipynb_files) /\ f \notin Range(md_files) /\ f \notin warned
               ELSE IF NoExtension(n)
               THEN /\ f \notin Range(md_files) /\ f \notin Range(ipynb_files)
                    /\ f \notin warned /\ f \in ignored
               ELSE /\ f \in warned
                    /\ f \notin Range(md_files) /\ f \notin Range(ipynb_files)
    /\ NoDuplicates(md_files) /\ NoDuplicates(ipynb_files)
    /\ \A f \in Range(md_files) \cup Range(ipynb_files) \cup warned \cup ignored :
           f[1] \in scanned /\ f[2] \in files[f[1]]
    /\ reads \subseteq Range(md_files) \cup Range(ipynb_files)
    /\ ~Missing =>
           /\ pc = "aborted" => failed
           /\ pc \notin {"start", "scan", "aborted"} => scanned = 1..MaxUnits
           /\ pc = "done" => reads = Range(md_files) \cup Range(ipynb_files)

\* a warned .txt file whose sibling .md file and a later folder's notebook were read
C9_Witness ==
    /\ pc = "done"
    /\ <<1, d_txt>> \in warned
    /\ <<1, a_md>> \in reads
    /\ <<2, c_ipynb>> \in reads

----------------------------------------------------------------------------
(* What the walk is expected to reach, stated on the tree by paths *)

RECURSIVE AllPaths(_)
AllPaths(nl) ==
    { <<k>> : k \in 1..Len(nl) }
    \cup UNION { { <<k>> \o q : q \in AllPaths(Children(nl[k])) } : k \in 1..Len(nl) }

\* every proper ancestor of the node at p is a math or an environment node
Descended(nl, p) ==
    \A j \in 1..(Len(p) - 1) :
        NodeAt(nl, SubSeq(p, 1, j)).kind \in {"math", "environment"}

ReachablePaths(nl) == { p \in AllPaths(nl) : Descended(nl, p) }

ReachableMacroNames(nl) ==
    { NodeAt(nl, p).macroname :
        p \in { q \in ReachablePaths(nl) : NodeAt(nl, q).kind = "macro" } }


\* C1: get_macros(L) is exactly the set of names of the macro nodes that are in L
\* or reachable from L through the child lists of math and environment nodes only;
\* nothing inside macro arguments, groups, character runs or specials is collected.
C1_GetMacrosExact ==
    /\ get_macros(walk_input) = ReachableMacroNames(walk_input)
    /\ walk_pc = "returned" => walk_result = ReachableMacroNames(walk_input)

\* the tree of \alpha{\nu}: a macro whose argument group holds another macro
C1_Witness ==
    /\ walk_pc = "returned"
    /\ walk_input = <<LatexMacroNode(alpha, <<LatexGroupNode(<<LatexMacroNode(nu, <<>>)>>)>>)>>
    /\ walk_result = {alpha}

\* C2 as claimed: an environment node in the list puts its own environment name
\* into the result, besides the macro names of its body.
C2_EnvNameRecorded ==
    walk_pc = "returned" =>
        \A k \in 1..Len(walk_input) :
            walk_input[k].kind = "environment" =>
                /\ walk_input[k].environmentname \in walk_result
                /\ ReachableMacroNames(walk_input[k].nodelist) \subseteq walk_result

\* C2 amended: an environment node in the list contributes every macro name
\* collected from its body and nothing else; its own environment name is in the
\* result only when a collected macro node has that name.
C2_EnvBodyOnly ==
    walk_pc = "returned" =>
        \A k \in 1..Len(walk_input) :
            walk_input[k].kind = "environment" =>
                /\ ReachableMacroNames(walk_input[k].nodelist) \subseteq walk_result
                /\ Len(walk_input) = 1 =>
                       walk_result = ReachableMacroNames(walk_input[k].nodelist)
                /\ walk_input[k].environmentname \in walk_result =>
                       \E p \in ReachablePaths(walk_input) :
                           /\ NodeAt(walk_input, p).kind = "macro"
                           /\ NodeAt(walk_input, p).macroname = walk_input[k].environmentname

\* the tree of \begin{align}\alpha\end{align}
C2_Witness ==
    /\ walk_pc = "returned"
    /\ walk_input = <<LatexEnvironmentNode(align, <<LatexMacroNode(alpha, <<>>)>>)>>
    /\ walk_result = {alpha}

WalkSafe ==
    \* a node is visited at most once, and only if the walk reaches it
    /\ NoDuplicates(visited)
    /\ Range(visited) \subseteq ReachablePaths(walk_input)
    \* a recursive call is made for a visited node exactly when it is a math or
    \* an environment node, and once
    /\ NoDuplicates(called)
    /\ \A p \in Range(visited) :
           p \in Range(called) <=> NodeAt(walk_input, p).kind \in {"math", "environment"}
    /\ Range(called) \subseteq Range(visited)
    \* each call below the outermost is on the child list of its node, a strictly
    \* smaller tree than its caller's list
    /\ \A k \in 2..Len(stack) :
           /\ stack[k].node_list = NodeAt(walk_input, stack[k].path).nodelist
           /\ TreeSize(stack[k].node_list) < TreeSize(stack[k - 1].node_list)
    \* on return every reachable node has been visited
    /\ walk_pc = "returned" => Range(visited) = ReachablePaths(walk_input)

\* C10: the walk terminates on every finite tree: each node of a walked list is
\* visited once, only math and environment nodes trigger a recursive call, exactly
\* one each and on their own strictly smaller child list, and the outermost call
\* eventually returns.
C10_WalkTerminates == []WalkSafe /\ <>(walk_pc = "returned")

\* a returned walk that made a nested recursive call
C10_Witness ==
    /\ walk_pc = "returned"
    /\ \E p \in Range(called) : Len(p) = 2
    /\ Len(visited) = 3

====
